---- MODULE Spec2Model ----
(***************************************************************************)
(* Routing gateway of ida-pro-mcp (src/src/ida_pro_mcp/server.py): the      *)
(* instance registry IDA_INSTANCES, the registration operations, the        *)
(* discovery scanner and dispatch_proxy, the per-request routing state      *)
(* machine.  One handler thread serves requests step by step (one step per  *)
(* lock scope or network call); the registration listener thread may        *)
(* register or unregister between any two steps.                            *)
(*                                                                          *)
(* Text values (hashes, module names, paths, selectors) are sequences of    *)
(* characters, so that equality and the substring test of find_instance     *)
(* are computed, not assumed.  A method name is the sequence of its         *)
(* "/"-separated segments.                                                  *)
(***************************************************************************)
EXTENDS Integers, Sequences, FiniteSets, TLC

VARIABLES
    IDA_INSTANCES,  \* the registry: insertion-ordered sequence of [key, rec]
    pc,             \* position of the handler thread inside dispatch_proxy
    inbound,        \* the request value as it arrived (kept for comparison)
    request_obj,    \* the parsed request the handler works on (popped in place)
    binary,         \* local: the extracted selector
    instance,       \* local: the record resolved (find / single / first)
    target,         \* local: (target_host, target_port)
    probe_i,        \* local of discover_ida_instances: loop index i
    discovered,     \* local of discover_ida_instances: counter
    forwards,       \* calls of forward_to_instance made for this request
    delegated,      \* calls of dispatch_original made for this request
    discoveries,    \* discovery passes started for this request
    answer,         \* what the network gave back to forward_to_instance
    result,         \* what dispatch_proxy returned (or the exception raised)
    regChanged,     \* the listener changed the registry while the request ran
    call,           \* history: the last operation called on its own (see below)
    instances_lock, \* _instances_lock: "free", or the thread that holds it
    wasEmpty,       \* history: the registry was empty at some instant since
                    \* the request in hand was received
    plugin          \* the worker plugins (ida_mcp.py): one MCP object each

vars == <<IDA_INSTANCES, pc, inbound, request_obj, binary, instance, target,
          probe_i, discovered, forwards, delegated, discoveries, answer,
          result, regChanged, call, instances_lock, wasEmpty, plugin>>

----------------------------------------------------------------------------
(* Program constants *)

IDA_HOST == "127.0.0.1"
IDA_PORT == 13337
MAIN_SERVER_PORT == 13337
START_PORT == 13338
ERR_CODE == -32000

(* Bound of the model: ports scanned by one discovery pass (max_tries). *)
MaxTries == 2

----------------------------------------------------------------------------
(* Text *)

Empty == << >>
A == <<"a">>
B == <<"b">>
C == <<"c">>

\* Python's `x in s` for two strings: x occurs as a contiguous run of s
Contains(s, x) ==
    \E i \in 0..(Len(s) - Len(x)) :
        \A j \in 1..Len(x) : s[i + j] = x[j]

(* JSON values that may sit under the 'binary' key.  t = "absent": no such  *)
(* key; "str": a string v; "num": a non-zero number (not a string).         *)
Absent == [t |-> "absent", v |-> Empty]
Str(s) == [t |-> "str", v |-> s]
Num == [t |-> "num", v |-> Empty]

\* Python truthiness of the popped value (`if binary:`); None when absent
Truthy(b) == (b.t = "str" /\ b.v # Empty) \/ b.t = "num"

----------------------------------------------------------------------------
(* The registry as an insertion-ordered dict *)

NONE == [t |-> "none"]

Keys(d) == { d[i].key : i \in 1..Len(d) }
IndexOf(d, k) == CHOOSE i \in 1..Len(d) : d[i].key = k
Get(d, k) == d[IndexOf(d, k)].rec

Put_AppendAlways(d, k, rec) == Append(d, [key |-> k, rec |-> rec])

\* d[k] = rec : overwrite in place when k is present, append otherwise
Put(d, k, rec) ==
    IF k \in Keys(d)
    THEN [d EXCEPT ![IndexOf(d, k)] = [key |-> k, rec |-> rec]]
    ELSE Append(d, [key |-> k, rec |-> rec])

\* del d[k]
Del(d, k) ==
    LET n == IndexOf(d, k)
    IN  SubSeq(d, 1, n - 1) \o SubSeq(d, n + 1, Len(d))

Found(rec) == [t |-> "rec", rec |-> rec]
Raised(what) == [t |-> "raise", what |-> what]

\* the first record, in iteration order, among the positions S
FirstAt(d, S) ==
    IF S = {} THEN NONE
    ELSE Found(d[CHOOSE i \in S : \A j \in S : i <= j].rec)

\* lines 49-51
FirstByModule(d, v) == FirstAt(d, { i \in 1..Len(d) : d[i].rec.module = v })

\* lines 54-56
FirstByPath(d, v) == FirstAt(d, { i \in 1..Len(d) : Contains(d[i].rec.path, v) })

find_instance_ModuleFirst(b, d) ==
    IF b.t = "str"
    THEN IF FirstByModule(d, b.v) # NONE THEN FirstByModule(d, b.v)
         ELSE IF b.v \in Keys(d) THEN Found(Get(d, b.v))
         ELSE FirstByPath(d, b.v)
    ELSE IF d = << >> THEN NONE ELSE Raised("TypeError")

find_instance(b, d) ==
    IF b.t = "str"
    THEN IF b.v \in Keys(d) THEN Found(Get(d, b.v))
         ELSE IF FirstByModule(d, b.v) # NONE THEN FirstByModule(d, b.v)
         ELSE FirstByPath(d, b.v)
    ELSE \* a number is no key and equals no module; `5 in "path"` raises
         IF d = << >> THEN NONE ELSE Raised("TypeError")

get_instance_count(d) == Len(d)

get_single_instance(d) == IF Len(d) = 1 THEN Found(d[1].rec) ELSE NONE

RegisterId_Md5First(data) == IF data.md5 # Empty THEN data.md5 ELSE data.sha256

\* register_instance: the registry after the call, and the value returned
RegisterId(data) == IF data.sha256 # Empty THEN data.sha256 ELSE data.md5

RegisterRecord(data) ==
    [host |-> data.host, port |-> data.port, path |-> data.path,
     module |-> data.module, md5 |-> data.md5, sha256 |-> data.sha256]

register_instance(d, data) ==
    IF RegisterId(data) = Empty
    THEN [reg |-> d, success |-> FALSE, binary_id |-> Empty]
    ELSE [reg |-> Put(d, RegisterId(data), RegisterRecord(data)),
          success |-> TRUE, binary_id |-> RegisterId(data)]

\* unregister_instance
UnregisterKey(d, data) ==
    IF data.binary_id # Empty /\ data.binary_id \in Keys(d) THEN data.binary_id
    ELSE IF data.sha256 # Empty /\ data.sha256 \in Keys(d) THEN data.sha256
    ELSE IF data.md5 # Empty /\ data.md5 \in Keys(d) THEN data.md5
    ELSE Empty

unregister_instance(d, data) ==
    IF UnregisterKey(d, data) # Empty
    THEN [reg |-> Del(d, UnregisterKey(d, data)), success |-> TRUE,
          binary_id |-> UnregisterKey(d, data)]
    ELSE [reg |-> d, success |-> FALSE, binary_id |-> Empty]

----------------------------------------------------------------------------
(* Requests *)

NoId == "none"
Ids == {NoId, "1"}

M_INITIALIZE == <<"initialize">>
M_NOTIFICATION == <<"notifications", "initialized">>
M_TOOLS_LIST == <<"tools", "list">>
M_TOOLS_CALL == <<"tools", "call">>
M_OTHER == <<"resources", "read">>
Methods == {M_INITIALIZE, M_NOTIFICATION, M_TOOLS_LIST, M_TOOLS_CALL, M_OTHER}

\* method.startswith("notifications/")
IsNotificationMethod(m) == Len(m) >= 2 /\ m[1] = "notifications"

Selectors == {Absent, Str(Empty), Str(A), Str(B), Str(C), Str(<<"b", "b">>), Num}

NoArgs == [kind |-> "absent", binary |-> Absent]
NoParams == [kind |-> "absent", name |-> "", binary |-> Absent, args |-> NoArgs]

\* params of a tools/call: a dict with a tool name and (possibly) arguments;
\* list_instances is called without arguments, with arguments, and with a
\* selector among them
CallParams ==
    { [kind |-> "dict", name |-> "decompile", binary |-> b, args |-> a] :
        b \in {Absent, Str(A)},
        a \in { [kind |-> "dict", binary |-> s] : s \in Selectors }
              \cup {NoArgs, [kind |-> "other", binary |-> Absent]} }
    \cup
    { [kind |-> "dict", name |-> "list_instances", binary |-> Absent, args |-> a] :
        a \in { [kind |-> "dict", binary |-> s] : s \in {Absent, Str(A)} }
              \cup {NoArgs} }

\* params of any other method: absent, a dict, or a JSON value that is no dict
PlainParams ==
    { [kind |-> "dict", name |-> "", binary |-> b, args |-> NoArgs] :
        b \in Selectors }
    \cup {NoParams, [NoParams EXCEPT !.kind = "other"]}

\* params of a tools/list: absent, without and with a selector, or no dict
ListParams ==
    { p \in PlainParams : p.binary \in {Absent, Str(A)} }

ParamsOf(m) ==
    IF m = M_TOOLS_CALL THEN CallParams \cup {NoParams}
    ELSE IF m = M_TOOLS_LIST THEN ListParams
    ELSE PlainParams

RequestObjects ==
    UNION { { [method |-> m, id |-> i, params |-> p] : i \in Ids, p \in ParamsOf(m) }
            : m \in Methods }

\* the value handed to dispatch_proxy: a dict, or text that json.loads parses
Requests == { [form |-> f, obj |-> o] : f \in {"dict", "text"}, o \in RequestObjects }

NoRequest == [form |-> "none", obj |-> [method |-> Empty, id |-> NoId, params |-> NoParams]]

\* lines 181-192: the selector as dispatch_proxy extracts it
ExtractedBinary(obj) ==
    LET p == obj.params
    IN  IF p.kind # "dict" THEN Absent
        ELSE IF obj.method = M_TOOLS_CALL /\ p.args.kind # "absent"
             THEN IF p.args.kind = "dict" THEN p.args.binary ELSE Absent
             ELSE p.binary

\* lines 181-192: the request object after the pops
PopBinary(obj) ==
    LET p == obj.params
    IN  IF p.kind # "dict" THEN obj
        ELSE IF obj.method = M_TOOLS_CALL /\ p.args.kind # "absent"
             THEN IF p.args.kind = "dict"
                  THEN [obj EXCEPT !.params.args.binary = Absent]
                  ELSE obj
             ELSE [obj EXCEPT !.params.binary = Absent]

Classify_NoEnumeration(obj) ==
    IF obj.method = M_INITIALIZE \/ IsNotificationMethod(obj.method) THEN "local"
    ELSE IF obj.method = M_TOOLS_LIST THEN "tl_count1"
    ELSE "extract"

Classify_NoNotifications(obj) ==
    IF obj.method = M_INITIALIZE THEN "local"
    ELSE IF obj.method = M_TOOLS_CALL /\ obj.params.kind = "dict"
            /\ obj.params.name = "list_instances" THEN "list_instances"
    ELSE IF obj.method = M_TOOLS_LIST THEN "tl_count1"
    ELSE "extract"

\* lines 126-141: which branch of dispatch_proxy takes the request
Classify(obj) ==
    IF obj.method = M_INITIALIZE \/ IsNotificationMethod(obj.method) THEN "local"
    ELSE IF obj.method = M_TOOLS_CALL /\ obj.params.kind = "dict"
            /\ obj.params.name = "list_instances" THEN "list_instances"
    ELSE IF obj.method = M_TOOLS_LIST THEN "tl_count1"
    ELSE "extract"

----------------------------------------------------------------------------
(* Replies *)

NoReply == [t |-> "noreply"]

NoData == [t |-> "absent", v |-> Empty]

ErrorReply_CodePerCase(id, message, data) ==
    [t |-> "reply", origin |-> "gateway", id |-> id, shape |-> "error",
     code |-> IF data = [t |-> "absent", v |-> << >>] THEN -32001 ELSE -32000,
     message |-> message, data |-> data, tools |-> << >>]

\* an envelope the gateway builds itself
ErrorReply(id, message, data) ==
    [t |-> "reply", origin |-> "gateway", id |-> id, shape |-> "error",
     code |-> ERR_CODE, message |-> message, data |-> data, tools |-> << >>]

ResultReply(origin, id) ==
    [t |-> "reply", origin |-> origin, id |-> id, shape |-> "result",
     code |-> 0, message |-> "", data |-> NoData, tools |-> << >>]

ToolsReply(origin, id, tools) ==
    [t |-> "reply", origin |-> origin, id |-> id, shape |-> "tools",
     code |-> 0, message |-> "", data |-> NoData, tools |-> tools]

\* a worker's own JSON-RPC error (e.g. unknown method)
WorkerError(id) ==
    [t |-> "reply", origin |-> "worker", id |-> id, shape |-> "error",
     code |-> -32601, message |-> "worker", data |-> NoData, tools |-> << >>]

\* what RegistryHttpHandler.do_POST answers on /mcp: {"error": "Not found"}
Listener404 ==
    [t |-> "reply", origin |-> "listener", id |-> NoId, shape |-> "notfound404",
     code |-> 0, message |-> "", data |-> NoData, tools |-> << >>]

\* a reply body that is valid JSON but no object (a number)
ScalarReply ==
    [t |-> "reply", origin |-> "worker", id |-> NoId, shape |-> "scalar",
     code |-> 0, message |-> "", data |-> NoData, tools |-> << >>]

(* Tool descriptors: name ("" when the key is missing), schema = "props"   *)
(* when inputSchema.properties exists, "noprops" / "none" otherwise,        *)
(* binary = the properties hold a 'binary' entry.                           *)
Tool(name, schema, bin, note) ==
    [name |-> name, schema |-> schema, binary |-> bin, note |-> note]

LIST_INSTANCES_TOOL == Tool("list_instances", "props", FALSE, "plain")
NO_WORKERS_TOOL == Tool("list_instances", "props", FALSE, "no instances connected")

T_DECOMPILE == Tool("decompile", "props", FALSE, "worker")
T_NOSCHEMA == Tool("idb_meta", "none", FALSE, "worker")
T_WORKER_LI == Tool("list_instances", "props", FALSE, "worker")
T_NONAME == Tool("", "props", FALSE, "worker")

ToolLists ==
    { << >>, <<T_DECOMPILE>>, <<T_DECOMPILE, T_NOSCHEMA>>,
      <<T_WORKER_LI, T_DECOMPILE>>, <<T_NONAME>> }

AddBinary_Never(tool) == tool

\* lines 93-98
AddBinary(tool) == IF tool.schema = "props" THEN [tool EXCEPT !.binary = TRUE] ELSE tool

add_binary_param_to_schema_AlwaysAppend(response) ==
    IF response.shape = "scalar" THEN Raised("TypeError")
    ELSE IF response.shape # "tools" THEN response
    ELSE LET tools == [i \in 1..Len(response.tools) |-> AddBinary(response.tools[i])]
         IN  IF \E i \in 1..Len(tools) : tools[i].name = "" THEN Raised("KeyError")
             ELSE [response EXCEPT !.tools = Append(tools, LIST_INSTANCES_TOOL)]

\* add_binary_param_to_schema: the value returned, or the exception raised
add_binary_param_to_schema(response) ==
    IF response.shape = "scalar" THEN Raised("TypeError")
    ELSE IF response.shape # "tools" THEN response
    ELSE LET tools == [i \in 1..Len(response.tools) |-> AddBinary(response.tools[i])]
         IN  IF \E i \in 1..Len(tools) : tools[i].name = "" THEN Raised("KeyError")
             ELSE IF \E i \in 1..Len(tools) : tools[i].name = "list_instances"
                  THEN [response EXCEPT !.tools = tools]
                  ELSE [response EXCEPT !.tools = Append(tools, LIST_INSTANCES_TOOL)]

\* transport failures of forward_to_instance and the text str(e) of each
Failures == {"refused", "timed out", "malformed"}
FailureText(f) == Str(<<f>>)
Failed(f) == [t |-> "fail", f |-> f]

----------------------------------------------------------------------------
(* Inputs of the registration listener and of the discovery probes *)

Worker(port, path, module, md5, sha256) ==
    [host |-> IDA_HOST, port |-> port, path |-> path, module |-> module,
     md5 |-> md5, sha256 |-> sha256]

W1 == Worker(13338, <<"c", "b">>, B, Empty, A)
W2 == Worker(13339, <<"c", "a">>, C, B, Empty)
W3 == Worker(13339, <<"a", "c">>, A, B, A)
W_NOHASH == Worker(13338, <<"c">>, C, Empty, Empty)

RegData == {W1, W2, W3, W_NOHASH}

UnregData ==
    { [binary_id |-> Empty, sha256 |-> s, md5 |-> m] : s \in {Empty, A}, m \in {Empty, B} }
    \cup { [binary_id |-> B, sha256 |-> Empty, md5 |-> Empty] }

\* metadata a probed port may answer with (idb_meta), or no usable answer
ProbeMeta == {W1, W2, W_NOHASH}

----------------------------------------------------------------------------
(* The worker plugin (ida_mcp.py, class MCP): one plugin object per IDA    *)
(* process, each with the database it has open.                            *)

HOST == "127.0.0.1"
BASE_PORT == 13338

(* Bound of the model: ports one plugin tries to bind (10 in the source). *)
MAX_PORT_TRIES == 2

PluginPorts == BASE_PORT..(BASE_PORT + MAX_PORT_TRIES - 1)

\* what idb_meta() returns for a database; filled = the dict is not {}
Metadata(path, module, md5, sha256) ==
    [path |-> path, module |-> module, md5 |-> md5, sha256 |-> sha256,
     filled |-> TRUE]

\* self._metadata = {} (line 93)
EmptyDict ==
    [path |-> Empty, module |-> Empty, md5 |-> Empty, sha256 |-> Empty,
     filled |-> FALSE]

DB_BOTH == Metadata(<<"c", "b">>, B, B, A)
DB_MD5 == Metadata(<<"c", "a">>, C, B, Empty)
DB_NOHASH == Metadata(<<"c">>, C, Empty, Empty)
\* the databases the two IDA processes may have open
Databases(w) == IF w = "ida1" THEN {DB_BOTH, DB_MD5} ELSE {DB_BOTH, DB_NOHASH}

\* register_with_main_server: the body posted to /register
PluginRegisterData(host, port, metadata) ==
    [host |-> host, port |-> port, path |-> metadata.path,
     module |-> metadata.module, md5 |-> metadata.md5, sha256 |-> metadata.sha256]

PluginUnregisterData_Md5Only(metadata) ==
    [binary_id |-> Empty, sha256 |-> Empty, md5 |-> metadata.md5]

\* unregister_from_main_server: the body posted to /unregister (no binary_id)
PluginUnregisterData(metadata) ==
    [binary_id |-> Empty, sha256 |-> metadata.sha256, md5 |-> metadata.md5]

Plugins == {"ida1", "ida2"}

(* A plugin object.  pc: where it stands; mcp: self.mcp is set;            *)
(* serving: the port its RPC server listens on, 0 when it has none; db:    *)
(* the database of the IDA process; last: the last thing it did.           *)
Unloaded(db) ==
    [pc |-> "unloaded", i |-> 0, mcp |-> FALSE, current_port |-> 0,
     metadata |-> EmptyDict, serving |-> 0, db |-> db, last |-> "none"]

----------------------------------------------------------------------------
(* State machine *)

DefaultTarget == [host |-> IDA_HOST, port |-> IDA_PORT]

\* no operation has been called on its own yet
NoCall == [op |-> "none"]

Init ==
    /\ IDA_INSTANCES = << >>
    /\ pc = "idle"
    /\ inbound = NoRequest
    /\ request_obj = NoRequest.obj
    /\ binary = Absent
    /\ instance = NONE
    /\ target = DefaultTarget
    /\ probe_i = 0
    /\ discovered = 0
    /\ forwards = << >>
    /\ delegated = << >>
    /\ discoveries = 0
    /\ answer = NONE
    /\ result = NoReply
    /\ regChanged = FALSE
    /\ call = NoCall
    /\ instances_lock = "free"
    /\ wasEmpty = FALSE
    /\ plugin = [w \in Plugins |-> Unloaded(DB_NOHASH)]

Locals == <<binary, instance, target, probe_i, discovered>>

(* `with _instances_lock:` around a step of the handler: the lock is taken  *)
(* (or was taken in the step before) and is free again when the step ends.  *)
Scope ==
    /\ instances_lock \in {"free", "handler"}
    /\ instances_lock' = "free"

\* the same for the listener thread
ListenerScope ==
    /\ instances_lock \in {"free", "listener"}
    /\ instances_lock' = "free"
Trace == <<forwards, delegated, discoveries, answer>>

Running == pc \notin {"idle", "done"}

\* return value: the handler is finished with this request
Return(v) == pc' = "done" /\ result' = v

(* ---- the registration listener thread (RegistryHttpHandler.do_POST) ---- *)
(* It runs between any two steps of the handler.  The instant of a return   *)
(* ("done") is not a step of its own for the listener: what it does after   *)
(* the return it does while the handler is idle.                            *)

Register(data) ==
    /\ UNCHANGED <<call, plugin>>
    /\ ListenerScope
    /\ pc # "done"
    /\ IDA_INSTANCES' = register_instance(IDA_INSTANCES, data).reg
    /\ regChanged' = (regChanged \/ (Running /\ IDA_INSTANCES' # IDA_INSTANCES))
    /\ wasEmpty' = (wasEmpty \/ (Running /\ IDA_INSTANCES' = << >>))
    /\ UNCHANGED <<pc, inbound, request_obj, Locals, Trace, result>>

Unregister(data) ==
    /\ UNCHANGED <<call, plugin>>
    /\ ListenerScope
    /\ pc # "done"
    /\ IDA_INSTANCES' = unregister_instance(IDA_INSTANCES, data).reg
    /\ regChanged' = (regChanged \/ (Running /\ IDA_INSTANCES' # IDA_INSTANCES))
    /\ wasEmpty' = (wasEmpty \/ (Running /\ IDA_INSTANCES' = << >>))
    /\ UNCHANGED <<pc, inbound, request_obj, Locals, Trace, result>>

(* ---- dispatch_proxy ---- *)

\* lines 119-141: parse and pick the branch
Receive(req) ==
    /\ UNCHANGED <<call, instances_lock, plugin>>
    /\ wasEmpty' = (IDA_INSTANCES = << >>)
    /\ pc = "idle"
    /\ inbound' = req
    /\ request_obj' = req.obj
    /\ pc' = Classify(req.obj)
    /\ UNCHANGED <<IDA_INSTANCES, Locals, Trace, result, regChanged>>

\* the caller's `request` value now: a dict is the very object the handler
\* works on (line 124), text stays as it arrived (line 122)
RequestValue ==
    IF inbound.form = "dict" THEN [form |-> "dict", obj |-> request_obj] ELSE inbound

\* lines 129-132: initialize and notifications/* go to dispatch_original,
\* which answers with an envelope or with nothing
DelegateLocal ==
    /\ UNCHANGED <<call, instances_lock, wasEmpty, plugin>>
    /\ pc = "local"
    /\ delegated' = Append(delegated, RequestValue)
    /\ \E r \in {NoReply, ResultReply("local", request_obj.id)} : Return(r)
    /\ UNCHANGED <<IDA_INSTANCES, inbound, request_obj, Locals, forwards,
                   discoveries, answer, regChanged>>

\* lines 135-138 and 272-275: dispatch_original runs the list_instances tool,
\* which starts with a discovery pass
DelegateListInstances ==
    /\ UNCHANGED <<call, instances_lock, wasEmpty, plugin>>
    /\ pc = "list_instances"
    /\ delegated' = Append(delegated, RequestValue)
    /\ discoveries' = discoveries + 1
    /\ probe_i' = 0
    /\ discovered' = 0
    /\ pc' = "li_discover"
    /\ UNCHANGED <<IDA_INSTANCES, inbound, request_obj, binary, instance, target,
                   forwards, answer, result, regChanged>>

ToolsListCount_AlwaysDiscover ==
    /\ UNCHANGED <<call, wasEmpty, plugin>>
    /\ Scope
    /\ pc = "tl_count1"
    /\ pc' = "tl_discover"
    /\ discoveries' = discoveries + 1
    /\ probe_i' = 0
    /\ discovered' = 0
    /\ UNCHANGED <<IDA_INSTANCES, inbound, request_obj, binary, instance, target,
                   forwards, delegated, answer, result, regChanged>>

\* lines 141-143: tools/list, first count
ToolsListCount ==
    /\ UNCHANGED <<call, wasEmpty, plugin>>
    /\ Scope
    /\ pc = "tl_count1"
    /\ IF get_instance_count(IDA_INSTANCES) = 0
       THEN /\ pc' = "tl_discover"
            /\ discoveries' = discoveries + 1
            /\ probe_i' = 0
            /\ discovered' = 0
       ELSE /\ pc' = "tl_count2"
            /\ UNCHANGED <<discoveries, probe_i, discovered>>
    /\ UNCHANGED <<IDA_INSTANCES, inbound, request_obj, binary, instance, target,
                   forwards, delegated, answer, result, regChanged>>

\* lines 1142-1184: one iteration of the scan; m = the metadata answered
ProbeRegister_Sha256Only(m) ==
    IF m.sha256 = Empty
    THEN [reg |-> IDA_INSTANCES, success |-> FALSE, binary_id |-> Empty]
    ELSE register_instance(IDA_INSTANCES,
                           [m EXCEPT !.host = IDA_HOST, !.port = START_PORT + probe_i])

\* lines 1166-1175: register_data and the call of register_instance
ProbeRegister(m) ==
    register_instance(IDA_INSTANCES,
                      [m EXCEPT !.host = IDA_HOST, !.port = START_PORT + probe_i])

AfterDiscovery ==
    IF pc = "tl_discover" THEN "tl_count2"
    ELSE IF pc = "li_discover" THEN "li_list"
    ELSE "scanned"

Discovering == pc \in {"tl_discover", "li_discover", "scan"}

\* what a probed port may do instead of answering with metadata
ProbeFailures == {"refused", "timed out", "malformed", "no metadata"}
NoMeta == Worker(0, Empty, Empty, Empty, Empty)
Outcome(kind, m) == [kind |-> kind, meta |-> m]

\* the pass that main runs on its own (line 1257) keeps the outcome of each port
ProbeStep(reg, count, outcome) ==
    /\ UNCHANGED <<instances_lock, wasEmpty, plugin>>
    /\ call' = IF pc = "scan"
               THEN [call EXCEPT !.outcomes = Append(call.outcomes, outcome)]
               ELSE call
    /\ IDA_INSTANCES' = reg
    /\ discovered' = count
    /\ probe_i' = probe_i + 1
    /\ pc' = IF probe_i + 1 = MaxTries THEN AfterDiscovery ELSE pc
    /\ UNCHANGED <<inbound, request_obj, binary, instance, target, Trace, result,
                   regChanged>>

ProbeFail_Abort(kind) ==
    /\ UNCHANGED <<instances_lock, wasEmpty, plugin>>
    /\ Discovering
    /\ probe_i < MaxTries
    /\ call' = IF pc = "scan"
               THEN [call EXCEPT !.outcomes = Append(call.outcomes, Outcome(kind, NoMeta))]
               ELSE call
    /\ pc' = AfterDiscovery
    /\ UNCHANGED <<IDA_INSTANCES, inbound, request_obj, binary, instance, target,
                   probe_i, discovered, Trace, result, regChanged>>

\* lines 1182-1184: the port refuses, times out, answers with something that
\* is no JSON, or with JSON that holds no metadata: skipped
ProbeFail(kind) ==
    /\ Discovering
    /\ probe_i < MaxTries
    /\ ProbeStep(IDA_INSTANCES, discovered, Outcome(kind, NoMeta))

\* the port answers with metadata: register_instance decides
ProbeAnswer(m) ==
    /\ Discovering
    /\ probe_i < MaxTries
    \* register_instance takes the lock for its assignment (lines 1039-1048)
    /\ ProbeRegister(m).success => instances_lock = "free"
    /\ ProbeStep(ProbeRegister(m).reg,
                 IF ProbeRegister(m).success THEN discovered + 1 ELSE discovered,
                 Outcome("metadata", m))

\* lines 277-289: the list_instances tool answers from the registry
InstanceSummary(e) ==
    [binary_id |-> e.key, module |-> e.rec.module, path |-> e.rec.path,
     md5 |-> e.rec.md5, sha256 |-> e.rec.sha256, port |-> e.rec.port]

ListInstances ==
    /\ UNCHANGED <<call, wasEmpty, plugin>>
    /\ Scope
    /\ pc = "li_list"
    /\ Return([t |-> "reply", origin |-> "local", id |-> request_obj.id,
               shape |-> "instances", code |-> 0, message |-> "", data |-> NoData,
               tools |-> [i \in 1..Len(IDA_INSTANCES) |->
                            InstanceSummary(IDA_INSTANCES[i])]])
    /\ UNCHANGED <<IDA_INSTANCES, inbound, request_obj, Locals, Trace, regChanged>>

ToolsListRecount_NoCheck ==
    /\ UNCHANGED <<call, wasEmpty, plugin>>
    /\ Scope
    /\ pc = "tl_count2"
    /\ pc' = "tl_first"
    /\ UNCHANGED <<IDA_INSTANCES, inbound, request_obj, Locals, Trace, result,
                   regChanged>>

\* lines 145-164: second count; still empty -> the synthesized list
ToolsListRecount ==
    /\ UNCHANGED <<call, wasEmpty, plugin>>
    /\ Scope
    /\ pc = "tl_count2"
    /\ IF get_instance_count(IDA_INSTANCES) = 0
       THEN Return(ToolsReply("gateway", request_obj.id, <<NO_WORKERS_TOOL>>))
       ELSE pc' = "tl_first" /\ UNCHANGED result
    /\ UNCHANGED <<IDA_INSTANCES, inbound, request_obj, Locals, Trace, regChanged>>

\* lines 167-168: list(IDA_INSTANCES.values())[0], outside the try
ToolsListFirst_HoldLock ==
    /\ pc = "tl_first"
    /\ instances_lock \in {"free", "handler"}
    /\ instances_lock' = "handler"
    /\ IF IDA_INSTANCES = << >>
       THEN Return(Raised("IndexError")) /\ UNCHANGED instance
       ELSE /\ instance' = Found(IDA_INSTANCES[1].rec)
            /\ pc' = "tl_forward"
            /\ UNCHANGED result
    /\ UNCHANGED <<IDA_INSTANCES, inbound, request_obj, binary, target, probe_i,
                   discovered, Trace, regChanged, call, wasEmpty, plugin>>

ToolsListFirst ==
    /\ UNCHANGED <<call, wasEmpty, plugin>>
    /\ Scope
    /\ pc = "tl_first"
    /\ IF IDA_INSTANCES = << >>
       THEN Return(Raised("IndexError")) /\ UNCHANGED instance
       ELSE /\ instance' = Found(IDA_INSTANCES[1].rec)
            /\ pc' = "tl_forward"
            /\ UNCHANGED result
    /\ UNCHANGED <<IDA_INSTANCES, inbound, request_obj, binary, target, probe_i,
                   discovered, Trace, regChanged>>

Call(host, port) == [host |-> host, port |-> port, data |-> request_obj]

MSG_NOT_FOUND == "No IDA instance found for binary. Use list_instances"
MSG_AMBIGUOUS == "Multiple IDA instances are connected. Specify binary"
MSG_CONNECT == "Failed to connect to IDA Pro"
MSG_TOOLS == "Failed to get tools"

\* lines 173-179: any exception of the tools/list forward
ToolsListError(text) ==
    ErrorReply(request_obj.id, MSG_TOOLS, NoData)

\* what the address may answer to a forwarded request
WorkerReplies(port) ==
    {ResultReply("worker", request_obj.id), WorkerError(request_obj.id), ScalarReply}
    \cup (IF port = MAIN_SERVER_PORT THEN {Listener404} ELSE {})

ToolsListReplies ==
    { ToolsReply("worker", request_obj.id, ts) : ts \in ToolLists }
    \cup {WorkerError(request_obj.id), ScalarReply}

\* lines 169-172, the forward succeeds
ToolsListForwardOk(response) ==
    /\ UNCHANGED <<call, instances_lock, wasEmpty, plugin>>
    /\ pc = "tl_forward"
    /\ forwards' = Append(forwards, Call(instance.rec.host, instance.rec.port))
    /\ answer' = response
    /\ IF add_binary_param_to_schema(response).t = "raise"
       THEN Return(ToolsListError(add_binary_param_to_schema(response).what))
       ELSE Return(add_binary_param_to_schema(response))
    /\ UNCHANGED <<IDA_INSTANCES, inbound, request_obj, Locals, delegated,
                   discoveries, regChanged>>

\* lines 169-179, the forward fails
ToolsListForwardFail(f) ==
    /\ UNCHANGED <<call, instances_lock, wasEmpty, plugin>>
    /\ pc = "tl_forward"
    /\ forwards' = Append(forwards, Call(instance.rec.host, instance.rec.port))
    /\ answer' = Failed(f)
    /\ Return(ToolsListError(FailureText(f)))
    /\ UNCHANGED <<IDA_INSTANCES, inbound, request_obj, Locals, delegated,
                   discoveries, regChanged>>

\* lines 184-197: pop the selector, start from the default address
ExtractBinary ==
    /\ UNCHANGED <<call, instances_lock, wasEmpty, plugin>>
    /\ pc = "extract"
    /\ binary' = ExtractedBinary(request_obj)
    /\ request_obj' = PopBinary(request_obj)
    /\ target' = DefaultTarget
    /\ instance' = NONE
    /\ pc' = IF Truthy(ExtractedBinary(request_obj)) THEN "find" ELSE "count1"
    /\ UNCHANGED <<IDA_INSTANCES, inbound, probe_i, discovered, Trace, result,
                   regChanged>>

NotFoundReply == ErrorReply(request_obj.id, MSG_NOT_FOUND, NoData)
AmbiguousReply == ErrorReply(request_obj.id, MSG_AMBIGUOUS, NoData)
ConnectReply(f) == ErrorReply(request_obj.id, MSG_CONNECT, FailureText(f))

\* replies that are withheld from a request without id
OrNothing(reply) == IF request_obj.id = NoId THEN NoReply ELSE reply

ResolveSelector_KeepDefault ==
    /\ UNCHANGED <<call, wasEmpty, plugin>>
    /\ Scope
    /\ pc = "find"
    /\ LET found == find_instance(binary, IDA_INSTANCES)
       IN  IF found.t = "raise"
           THEN Return(found) /\ UNCHANGED <<instance, target>>
           ELSE IF found = NONE
           THEN Return(OrNothing(NotFoundReply)) /\ UNCHANGED <<instance, target>>
           ELSE /\ instance' = found
                /\ pc' = "forward"
                /\ UNCHANGED <<result, target>>
    /\ UNCHANGED <<IDA_INSTANCES, inbound, request_obj, binary, probe_i,
                   discovered, Trace, regChanged>>

\* lines 199-214
ResolveSelector ==
    /\ UNCHANGED <<call, wasEmpty, plugin>>
    /\ Scope
    /\ pc = "find"
    /\ LET found == find_instance(binary, IDA_INSTANCES)
       IN  IF found.t = "raise"
           THEN Return(found) /\ UNCHANGED <<instance, target>>
           ELSE IF found = NONE
           THEN Return(OrNothing(NotFoundReply)) /\ UNCHANGED <<instance, target>>
           ELSE /\ instance' = found
                /\ target' = [host |-> found.rec.host, port |-> found.rec.port]
                /\ pc' = "forward"
                /\ UNCHANGED result
    /\ UNCHANGED <<IDA_INSTANCES, inbound, request_obj, binary, probe_i,
                   discovered, Trace, regChanged>>

\* line 215: elif get_instance_count() == 1
ResolveCountOne ==
    /\ UNCHANGED <<call, wasEmpty, plugin>>
    /\ Scope
    /\ pc = "count1"
    /\ pc' = IF get_instance_count(IDA_INSTANCES) = 1 THEN "single" ELSE "count2"
    /\ UNCHANGED <<IDA_INSTANCES, inbound, request_obj, Locals, Trace, result,
                   regChanged>>

ResolveSingle_KeepDefault ==
    /\ UNCHANGED <<call, wasEmpty, plugin>>
    /\ Scope
    /\ pc = "single"
    /\ instance' = get_single_instance(IDA_INSTANCES)
    /\ target' = target
    /\ pc' = "forward"
    /\ UNCHANGED <<IDA_INSTANCES, inbound, request_obj, binary, probe_i,
                   discovered, Trace, result, regChanged>>

\* lines 217-220
ResolveSingle ==
    /\ UNCHANGED <<call, wasEmpty, plugin>>
    /\ Scope
    /\ pc = "single"
    /\ instance' = get_single_instance(IDA_INSTANCES)
    /\ target' = IF get_single_instance(IDA_INSTANCES) = NONE THEN target
                 ELSE [host |-> get_single_instance(IDA_INSTANCES).rec.host,
                       port |-> get_single_instance(IDA_INSTANCES).rec.port]
    /\ pc' = "forward"
    /\ UNCHANGED <<IDA_INSTANCES, inbound, request_obj, binary, probe_i,
                   discovered, Trace, result, regChanged>>

ResolveCountMany_OffByOne ==
    /\ UNCHANGED <<call, wasEmpty, plugin>>
    /\ Scope
    /\ pc = "count2"
    /\ IF get_instance_count(IDA_INSTANCES) > 2
       THEN Return(OrNothing(AmbiguousReply))
       ELSE pc' = "forward" /\ UNCHANGED result
    /\ UNCHANGED <<IDA_INSTANCES, inbound, request_obj, Locals, Trace, regChanged>>

ResolveCountMany_NotOne ==
    /\ UNCHANGED <<call, wasEmpty, plugin>>
    /\ Scope
    /\ pc = "count2"
    /\ IF get_instance_count(IDA_INSTANCES) # 1
       THEN Return(OrNothing(AmbiguousReply))
       ELSE pc' = "forward" /\ UNCHANGED result
    /\ UNCHANGED <<IDA_INSTANCES, inbound, request_obj, Locals, Trace, regChanged>>

\* lines 221-233: elif get_instance_count() > 1
ResolveCountMany ==
    /\ UNCHANGED <<call, wasEmpty, plugin>>
    /\ Scope
    /\ pc = "count2"
    /\ IF get_instance_count(IDA_INSTANCES) > 1
       THEN Return(OrNothing(AmbiguousReply))
       ELSE pc' = "forward" /\ UNCHANGED result
    /\ UNCHANGED <<IDA_INSTANCES, inbound, request_obj, Locals, Trace, regChanged>>

\* lines 236-245, the forward succeeds: the reply is returned as it came
ForwardOk(response) ==
    /\ UNCHANGED <<call, instances_lock, wasEmpty, plugin>>
    /\ pc = "forward"
    /\ forwards' = Append(forwards, Call(target.host, target.port))
    /\ answer' = response
    /\ Return(response)
    /\ UNCHANGED <<IDA_INSTANCES, inbound, request_obj, Locals, delegated,
                   discoveries, regChanged>>

ForwardFail_Retry(f) ==
    /\ UNCHANGED <<call, instances_lock, wasEmpty, plugin>>
    /\ pc = "forward"
    /\ forwards' = Append(Append(forwards, Call(target.host, target.port)),
                          Call(IDA_HOST, IDA_PORT))
    /\ answer' = Failed(f)
    /\ Return(OrNothing(ConnectReply(f)))
    /\ UNCHANGED <<IDA_INSTANCES, inbound, request_obj, Locals, delegated,
                   discoveries, regChanged>>

ForwardFail_Evict(f) ==
    /\ UNCHANGED <<call, instances_lock, wasEmpty, plugin>>
    /\ pc = "forward"
    /\ forwards' = Append(forwards, Call(target.host, target.port))
    /\ answer' = Failed(f)
    /\ Return(OrNothing(ConnectReply(f)))
    /\ IDA_INSTANCES' = SelectSeq(IDA_INSTANCES,
                                  LAMBDA e : e.rec.port # target.port)
    /\ UNCHANGED <<inbound, request_obj, Locals, delegated, discoveries, regChanged>>

\* lines 246-264, the forward fails
ForwardFail(f) ==
    /\ UNCHANGED <<call, instances_lock, wasEmpty, plugin>>
    /\ pc = "forward"
    /\ forwards' = Append(forwards, Call(target.host, target.port))
    /\ answer' = Failed(f)
    /\ Return(OrNothing(ConnectReply(f)))
    /\ UNCHANGED <<IDA_INSTANCES, inbound, request_obj, Locals, delegated,
                   discoveries, regChanged>>

\* the handler is ready for the next request
Finish ==
    /\ UNCHANGED <<call, instances_lock, plugin>>
    /\ wasEmpty' = FALSE
    /\ pc = "done"
    /\ pc' = "idle"
    /\ inbound' = NoRequest
    /\ request_obj' = NoRequest.obj
    /\ binary' = Absent
    /\ instance' = NONE
    /\ target' = DefaultTarget
    /\ probe_i' = 0
    /\ discovered' = 0
    /\ forwards' = << >>
    /\ delegated' = << >>
    /\ discoveries' = 0
    /\ answer' = NONE
    /\ result' = NoReply
    /\ regChanged' = FALSE
    /\ UNCHANGED IDA_INSTANCES

Next ==
    \/ \E data \in RegData : Register(data)
    \/ \E data \in UnregData : Unregister(data)
    \/ \E req \in Requests : Receive(req)
    \/ DelegateLocal
    \/ DelegateListInstances
    \/ ToolsListCount
    \/ \E kind \in ProbeFailures : ProbeFail(kind)
    \/ \E m \in ProbeMeta : ProbeAnswer(m)
    \/ ListInstances
    \/ ToolsListRecount
    \/ ToolsListFirst
    \/ \E r \in ToolsListReplies : ToolsListForwardOk(r)
    \/ \E f \in Failures : ToolsListForwardFail(f)
    \/ ExtractBinary
    \/ ResolveSelector
    \/ ResolveCountOne
    \/ ResolveSingle
    \/ ResolveCountMany
    \/ \E r \in WorkerReplies(target.port) : ForwardOk(r)
    \/ \E f \in Failures : ForwardFail(f)
    \/ Finish

Spec == Init /\ [][Next]_vars

----------------------------------------------------------------------------
(* The registry operations called one at a time, each call recorded in     *)
(* `call` with the registry it found: POST /register and /unregister of    *)
(* the listener, find_instance, and the discovery pass of main.  A missing *)
(* field of a posted body reads as "" (data.get(..., "")).                 *)

Hashes == { <<Empty, Empty>>, <<B, Empty>>, <<B, A>>, <<Empty, A>> }

RegistryData ==
    { Worker(START_PORT, path, module, h[1], h[2]) :
        path \in {<<"c", "b">>, <<"a">>}, module \in {A, B}, h \in Hashes }
    \cup {W3}

FindSelectors == {Str(Empty), Str(A), Str(B), Str(C)}

\* RegistryHttpHandler.do_POST, path /register
RegisterCall(data) ==
    /\ UNCHANGED <<instances_lock, wasEmpty, plugin>>
    /\ pc = "idle"
    /\ IDA_INSTANCES' = register_instance(IDA_INSTANCES, data).reg
    /\ call' = [op |-> "register", data |-> data, before |-> IDA_INSTANCES,
                success |-> register_instance(IDA_INSTANCES, data).success,
                binary_id |-> register_instance(IDA_INSTANCES, data).binary_id]
    /\ UNCHANGED <<pc, inbound, request_obj, Locals, Trace, result, regChanged>>

\* RegistryHttpHandler.do_POST, path /unregister
UnregisterCall(data) ==
    /\ UNCHANGED <<instances_lock, wasEmpty, plugin>>
    /\ pc = "idle"
    /\ IDA_INSTANCES' = unregister_instance(IDA_INSTANCES, data).reg
    /\ call' = [op |-> "unregister", data |-> data, before |-> IDA_INSTANCES,
                success |-> unregister_instance(IDA_INSTANCES, data).success,
                binary_id |-> unregister_instance(IDA_INSTANCES, data).binary_id]
    /\ UNCHANGED <<pc, inbound, request_obj, Locals, Trace, result, regChanged>>

\* find_instance(binary)
FindCall(sel) ==
    /\ UNCHANGED <<instances_lock, wasEmpty, plugin>>
    /\ pc = "idle"
    /\ call' = [op |-> "find", sel |-> sel, before |-> IDA_INSTANCES,
                ret |-> find_instance(sel, IDA_INSTANCES)]
    /\ UNCHANGED <<IDA_INSTANCES, pc, inbound, request_obj, Locals, Trace, result,
                   regChanged>>

\* main, line 1257: discover_ida_instances(IDA_HOST) is entered
ScanStart ==
    /\ UNCHANGED <<instances_lock, wasEmpty, plugin>>
    /\ pc = "idle"
    /\ pc' = "scan"
    /\ probe_i' = 0
    /\ discovered' = 0
    /\ call' = [op |-> "discover", before |-> IDA_INSTANCES, outcomes |-> << >>,
                removed |-> {}]
    /\ UNCHANGED <<IDA_INSTANCES, inbound, request_obj, binary, instance, target,
                   Trace, result, regChanged>>

\* line 1186: return discovered
ScanReturn ==
    /\ UNCHANGED <<instances_lock, wasEmpty, plugin>>
    /\ pc = "scanned"
    /\ pc' = "idle"
    /\ call' = [op |-> "discovered", before |-> call.before,
                outcomes |-> call.outcomes, removed |-> call.removed,
                ret |-> discovered]
    /\ probe_i' = 0
    /\ discovered' = 0
    /\ UNCHANGED <<IDA_INSTANCES, inbound, request_obj, binary, instance, target,
                   Trace, result, regChanged>>

(* A body that is no JSON object.  json.loads raises JSONDecodeError for    *)
(* text that is no JSON, which do_POST answers with status 400; for JSON   *)
(* that is no object data.get raises AttributeError, which do_POST does    *)
(* not catch: the server logs it and closes the connection with no status. *)
MalformedBodies == {"not json", "array", "number", "string", "null"}
PostPaths == {"/register", "/unregister"}
NoStatus == "connection closed"

PostStatus(body) == IF body = "not json" THEN "400" ELSE NoStatus

\* RegistryHttpHandler.do_POST with a malformed body
PostMalformed(path, body) ==
    /\ UNCHANGED <<instances_lock, wasEmpty, plugin>>
    /\ pc = "idle"
    /\ call' = [op |-> "post", path |-> path, body |-> body,
                before |-> IDA_INSTANCES, status |-> PostStatus(body)]
    /\ UNCHANGED <<IDA_INSTANCES, pc, inbound, request_obj, Locals, Trace, result,
                   regChanged>>

NextRegistry ==
    \/ \E path \in PostPaths, body \in MalformedBodies : PostMalformed(path, body)
    \/ \E data \in RegistryData : RegisterCall(data)
    \/ \E data \in UnregData : UnregisterCall(data)
    \/ \E sel \in FindSelectors : FindCall(sel)
    \/ ScanStart
    \/ \E kind \in ProbeFailures : ProbeFail(kind)
    \/ \E m \in ProbeMeta : ProbeAnswer(m)
    \/ ScanReturn

SpecRegistry == Init /\ [][NextRegistry]_vars

----------------------------------------------------------------------------
(* add_binary_param_to_schema called on its own, on a worker's reply and   *)
(* then again on what it returned.  A worker's tool list holds no name     *)
(* twice (its tools are registered by name).                               *)

MaxTools == 3
MaxAugment == 2

WorkerTools == {T_DECOMPILE, T_NOSCHEMA, T_WORKER_LI, T_NONAME}

UniqueToolLists ==
    { ts \in UNION { [1..n -> WorkerTools] : n \in 0..MaxTools } :
        \A i, j \in 1..Len(ts) : i # j => ts[i].name # ts[j].name }

AugmentInputs ==
    { ToolsReply("worker", id, ts) : id \in Ids, ts \in UniqueToolLists }
    \cup { WorkerError(id) : id \in Ids }
    \cup {ScalarReply}

\* line 171: add_binary_param_to_schema(response)
Augment(response) ==
    /\ UNCHANGED <<instances_lock, wasEmpty, plugin>>
    /\ pc = "idle"
    /\ call' = [op |-> "augment", arg |-> response,
                ret |-> add_binary_param_to_schema(response), n |-> 1]
    /\ UNCHANGED <<IDA_INSTANCES, pc, inbound, request_obj, Locals, Trace, result,
                   regChanged>>

\* the reply returned is augmented once more
AugmentAgain ==
    /\ UNCHANGED <<instances_lock, wasEmpty, plugin>>
    /\ pc = "idle"
    /\ call.op = "augment"
    /\ call.ret.t = "reply"
    /\ call.n < MaxAugment
    /\ call' = [op |-> "augment", arg |-> call.ret,
                ret |-> add_binary_param_to_schema(call.ret), n |-> call.n + 1]
    /\ UNCHANGED <<IDA_INSTANCES, pc, inbound, request_obj, Locals, Trace, result,
                   regChanged>>

NextAugment ==
    \/ \E response \in AugmentInputs : Augment(response)
    \/ AugmentAgain

SpecAugment == Init /\ [][NextAugment]_vars

----------------------------------------------------------------------------
(* main from the start of the listener on: start_registry_server, then the *)
(* initial discovery pass, then the transport loop.                        *)

\* the errno values main takes for "address already in use"
AddressInUse == {48, 98, 10048}

\* what start_registry_server may do: bind and return, or raise
StartupOutcomes ==
    {[kind |-> "bound", errno |-> 0], [kind |-> "other exception", errno |-> 0]}
    \cup { [kind |-> "OSError", errno |-> n] : n \in AddressInUse \cup {13} }

InitStartup ==
    /\ IDA_INSTANCES = << >>
    /\ pc = "boot"
    /\ inbound = NoRequest
    /\ request_obj = NoRequest.obj
    /\ binary = Absent
    /\ instance = NONE
    /\ target = DefaultTarget
    /\ probe_i = 0
    /\ discovered = 0
    /\ forwards = << >>
    /\ delegated = << >>
    /\ discoveries = 0
    /\ answer = NONE
    /\ result = NoReply
    /\ regChanged = FALSE
    /\ call = NoCall
    /\ instances_lock = "free"
    /\ wasEmpty = FALSE
    /\ plugin = [w \in Plugins |-> Unloaded(DB_NOHASH)]

MainCall(o, listener) ==
    [op |-> "main", startup |-> o, listener |-> listener,
     before |-> IDA_INSTANCES, outcomes |-> << >>]

StartListener_RaiseAll(o) ==
    /\ UNCHANGED <<instances_lock, wasEmpty, plugin>>
    /\ pc = "boot"
    /\ pc' = IF o.kind = "bound" THEN "started" ELSE "raised"
    /\ call' = MainCall(o, IF o.kind = "bound" THEN "running" ELSE "none")
    /\ UNCHANGED <<IDA_INSTANCES, inbound, request_obj, Locals, Trace, result,
                   regChanged>>

\* lines 1248-1254
StartListener(o) ==
    /\ UNCHANGED <<instances_lock, wasEmpty, plugin>>
    /\ pc = "boot"
    /\ IF o.kind = "bound"
       THEN pc' = "started" /\ call' = MainCall(o, "running")
       ELSE IF o.kind = "OSError" /\ o.errno \in AddressInUse
       THEN pc' = "started" /\ call' = MainCall(o, "skipped")
       ELSE pc' = "raised" /\ call' = MainCall(o, "none")
    /\ UNCHANGED <<IDA_INSTANCES, inbound, request_obj, Locals, Trace, result,
                   regChanged>>

\* line 1257: the initial pass is entered
InitialScan ==
    /\ pc = "started"
    /\ pc' = "scan"
    /\ probe_i' = 0
    /\ discovered' = 0
    /\ UNCHANGED <<IDA_INSTANCES, inbound, request_obj, binary, instance, target,
                   Trace, result, regChanged, call, instances_lock, wasEmpty, plugin>>

\* lines 1259-1268: the transport loop is entered
Serve ==
    /\ pc = "scanned"
    /\ pc' = "serving"
    /\ UNCHANGED <<IDA_INSTANCES, inbound, request_obj, Locals, Trace, result,
                   regChanged, call, instances_lock, wasEmpty, plugin>>

NextStartup ==
    \/ \E o \in StartupOutcomes : StartListener(o)
    \/ InitialScan
    \/ \E kind \in ProbeFailures : ProbeFail(kind)
    \/ \E m \in ProbeMeta : ProbeAnswer(m)
    \/ Serve

SpecStartup == InitStartup /\ [][NextStartup]_vars

----------------------------------------------------------------------------
(* The gateway with the taking of the lock as a step of its own: a thread  *)
(* may be stopped between taking _instances_lock and the statements under  *)
(* it, and the other thread then waits.                                    *)

\* the positions whose next statement is a `with _instances_lock:`
\* (find_instance, get_instance_count, get_single_instance, line 167, line 286)
ScopePcs ==
    {"tl_count1", "tl_count2", "tl_first", "find", "count1", "single", "count2",
     "li_list"}

\* the positions whose next statement is a network call
\* (forward_to_instance, the probe of discover_ida_instances)
IoPcs == {"tl_forward", "forward", "tl_discover", "li_discover"}

AcquireFrame ==
    UNCHANGED <<IDA_INSTANCES, pc, inbound, request_obj, Locals, Trace, result,
                regChanged, call, wasEmpty, plugin>>

\* the handler thread enters a `with _instances_lock:`
Acquire ==
    /\ pc \in ScopePcs
    /\ instances_lock = "free"
    /\ instances_lock' = "handler"
    /\ AcquireFrame

\* the listener thread enters the `with` of register_instance or
\* unregister_instance
ListenerAcquire ==
    /\ pc # "done"
    /\ instances_lock = "free"
    /\ instances_lock' = "listener"
    /\ AcquireFrame

\* the inputs of this specification: one request of each kind of routing,
\* two workers, one outcome of each kind of network call
LockRequests ==
    { req \in Requests :
        /\ req.form = "dict"
        /\ req.obj.id = "1"
        /\ req.obj.params.kind # "other"
        /\ req.obj.params.binary = Absent
        /\ req.obj.params.args.kind # "other"
        /\ req.obj.params.args.binary \in {Absent, Str(A)} }

LockUnregData == { data \in UnregData : data.binary_id = Empty }

NextLock ==
    \/ Acquire
    \/ ListenerAcquire
    \/ \E data \in {W1, W2} : Register(data)
    \/ \E data \in LockUnregData : Unregister(data)
    \/ \E req \in LockRequests : Receive(req)
    \/ DelegateLocal
    \/ DelegateListInstances
    \/ ToolsListCount
    \/ ProbeFail("refused")
    \/ ProbeAnswer(W1)
    \/ ListInstances
    \/ ToolsListRecount
    \/ ToolsListFirst
    \/ ToolsListForwardOk(ToolsReply("worker", request_obj.id, <<T_DECOMPILE>>))
    \/ ToolsListForwardFail("timed out")
    \/ ExtractBinary
    \/ ResolveSelector
    \/ ResolveCountOne
    \/ ResolveSingle
    \/ ResolveCountMany
    \/ ForwardOk(ResultReply("worker", request_obj.id))
    \/ ForwardFail("timed out")
    \/ Finish

SpecLock == Init /\ [][NextLock]_vars

----------------------------------------------------------------------------
(* The worker plugins next to the gateway: each plugin is loaded, started  *)
(* and restarted with run, and ended with term; its pushes reach the       *)
(* gateway's listener (do_POST) or fail to connect; the gateway's          *)
(* discovery pass probes the ports the plugins serve on.                   *)

PluginFrame ==
    UNCHANGED <<pc, inbound, request_obj, Locals, Trace, result, regChanged,
                instances_lock, wasEmpty>>

\* MCP.init (lines 83-94)
MCP_init(w) ==
    /\ plugin[w].pc = "unloaded"
    /\ plugin' = [plugin EXCEPT ![w] =
                     [pc |-> "loaded", i |-> 0, mcp |-> FALSE, current_port |-> 0,
                      metadata |-> EmptyDict, serving |-> 0, db |-> plugin[w].db,
                      last |-> "init"]]
    /\ UNCHANGED <<IDA_INSTANCES, call>>
    /\ PluginFrame

\* lines 97-102 and 139-143: `if self.mcp:` / `if self._metadata:`
BeforeStop(p, prefix) ==
    IF p.metadata.filled THEN <<prefix, "unregister">> ELSE <<prefix, "stop">>

MCP_run_StopFirst(w) ==
    /\ plugin[w].pc = "loaded"
    /\ plugin' = [plugin EXCEPT
                     ![w].pc = IF plugin[w].mcp THEN <<"run", "stop">> ELSE "serve",
                     ![w].i = 0]
    /\ UNCHANGED <<IDA_INSTANCES, call>>
    /\ PluginFrame

\* MCP.run is entered (line 96)
MCP_run(w) ==
    /\ plugin[w].pc = "loaded"
    /\ plugin' = [plugin EXCEPT
                     ![w].pc = IF plugin[w].mcp THEN BeforeStop(plugin[w], "run")
                               ELSE "serve",
                     ![w].i = 0]
    /\ UNCHANGED <<IDA_INSTANCES, call>>
    /\ PluginFrame

\* MCP.term is entered (line 138)
MCP_term(w) ==
    /\ plugin[w].pc = "loaded"
    /\ plugin' = [plugin EXCEPT
                     ![w].pc = IF plugin[w].mcp THEN BeforeStop(plugin[w], "term")
                               ELSE "unloaded"]
    /\ UNCHANGED <<IDA_INSTANCES, call>>
    /\ PluginFrame

(* The last push that reached or missed the listener: who sent it, what it *)
(* was, whether it succeeded, and for a registration whether the identity  *)
(* was new to the registry.  A push that arrives while the gateway's own   *)
(* discovery pass is recorded in `call` leaves that record in place; an    *)
(* unregistration that removed a key is noted in it.                       *)
PushRecord(w, op, delivered, ret) ==
    IF call.op = "discover"
    THEN IF op = "unregister" /\ delivered /\ ret.success
         THEN [call EXCEPT !.removed = @ \cup {ret.binary_id}]
         ELSE call
    ELSE [op |-> op, worker |-> w, delivered |-> delivered,
          success |-> delivered /\ ret.success,
          fresh |-> op = "register" /\ ret.binary_id \notin Keys(IDA_INSTANCES)]

\* unregister_from_main_server(self._metadata), lines 54-68: the listener
\* answers from unregister_instance, or the connection fails (returns False)
unregister_from_main_server(w, delivered) ==
    /\ plugin[w].pc \in {<<"run", "unregister">>, <<"term", "unregister">>}
    /\ LET data == PluginUnregisterData(plugin[w].metadata)
           ret == unregister_instance(IDA_INSTANCES, data)
       IN  /\ IDA_INSTANCES' = IF delivered THEN ret.reg ELSE IDA_INSTANCES
           /\ call' = PushRecord(w, "unregister", delivered, ret)
    /\ plugin' = [plugin EXCEPT ![w].pc = <<plugin[w].pc[1], "stop">>,
                                ![w].last = "unregister"]
    /\ PluginFrame

\* self.mcp.stop() (lines 101-102 and 143)
MCP_stop(w) ==
    /\ plugin[w].pc \in {<<"run", "stop">>, <<"term", "stop">>}
    /\ plugin' = [plugin EXCEPT
                     ![w].serving = 0,
                     ![w].mcp = IF plugin[w].pc[1] = "run" THEN FALSE ELSE @,
                     ![w].pc = IF plugin[w].pc[1] = "run" THEN "serve" ELSE "unloaded",
                     ![w].last = "stop"]
    /\ UNCHANGED <<IDA_INSTANCES, call>>
    /\ PluginFrame

\* what MCP_SERVER.serve(self.HOST, port) may do
ServeOutcomes == {"bound", "address in use", "other OSError"}

\* lines 113-136: one turn of the loop over the ports
MCP_serve(w, outcome) ==
    /\ plugin[w].pc = "serve"
    /\ LET port == BASE_PORT + plugin[w].i
       IN  /\ outcome = "bound" => \A v \in Plugins : plugin[v].serving # port
           /\ plugin' = [plugin EXCEPT ![w] =
                IF outcome = "bound"
                THEN [@ EXCEPT !.mcp = TRUE, !.current_port = port,
                               !.serving = port, !.pc = "idb_meta",
                               !.last = "bound"]
                ELSE IF outcome = "other OSError"
                THEN [@ EXCEPT !.pc = "loaded", !.last = "raised"]
                ELSE IF @.i = MAX_PORT_TRIES - 1
                THEN [@ EXCEPT !.pc = "loaded", !.last = "exhausted"]
                ELSE [@ EXCEPT !.i = @ + 1]]
    /\ UNCHANGED <<IDA_INSTANCES, call>>
    /\ PluginFrame

\* line 124: self._metadata = idb_meta()
MCP_idb_meta(w) ==
    /\ plugin[w].pc = "idb_meta"
    /\ plugin' = [plugin EXCEPT ![w].metadata = plugin[w].db,
                                ![w].pc = "register"]
    /\ UNCHANGED <<IDA_INSTANCES, call>>
    /\ PluginFrame

\* register_with_main_server(self.HOST, port, self._metadata), lines 32-51
register_with_main_server(w, delivered) ==
    /\ plugin[w].pc = "register"
    /\ LET data == PluginRegisterData(HOST, plugin[w].current_port,
                                      plugin[w].metadata)
           ret == register_instance(IDA_INSTANCES, data)
       IN  /\ IDA_INSTANCES' = IF delivered THEN ret.reg ELSE IDA_INSTANCES
           /\ call' = PushRecord(w, "register", delivered, ret)
    /\ plugin' = [plugin EXCEPT ![w].pc = "loaded", ![w].last = "register"]
    /\ PluginFrame

\* the idb_meta tool of the plugin serving on the probed port answers
ProbeReply(db) == Worker(0, db.path, db.module, db.md5, db.sha256)

ProbePlugin(w) ==
    /\ plugin[w].serving = START_PORT + probe_i
    /\ ProbeAnswer(ProbeReply(plugin[w].db))

NextPlugin ==
    \/ \E w \in Plugins : MCP_init(w)
    \/ \E w \in Plugins : MCP_run(w)
    \/ \E w \in Plugins : MCP_term(w)
    \/ \E w \in Plugins, delivered \in BOOLEAN : unregister_from_main_server(w, delivered)
    \/ \E w \in Plugins : MCP_stop(w)
    \/ \E w \in Plugins, outcome \in ServeOutcomes : MCP_serve(w, outcome)
    \/ \E w \in Plugins : MCP_idb_meta(w)
    \/ \E w \in Plugins, delivered \in BOOLEAN : register_with_main_server(w, delivered)

\* each IDA process has one of its databases open
InitPlugin ==
    /\ IDA_INSTANCES = << >>
    /\ pc = "idle"
    /\ inbound = NoRequest
    /\ request_obj = NoRequest.obj
    /\ binary = Absent
    /\ instance = NONE
    /\ target = DefaultTarget
    /\ probe_i = 0
    /\ discovered = 0
    /\ forwards = << >>
    /\ delegated = << >>
    /\ discoveries = 0
    /\ answer = NONE
    /\ result = NoReply
    /\ regChanged = FALSE
    /\ call = NoCall
    /\ instances_lock = "free"
    /\ wasEmpty = FALSE
    /\ \E dbs \in [Plugins -> UNION { Databases(w) : w \in Plugins }] :
          /\ \A w \in Plugins : dbs[w] \in Databases(w)
          /\ plugin = [w \in Plugins |-> Unloaded(dbs[w])]

SpecPlugin == InitPlugin /\ [][NextPlugin]_vars

(* The discovery pass of the gateway among plugins whose registration      *)
(* pushes do not reach it (the listener was not up when they started).     *)

\* the probed port does not answer: nothing listens there, or the plugin
\* serving there does not answer within the timeout
ProbeMiss ==
    ProbeFail(IF \E w \in Plugins : plugin[w].serving = START_PORT + probe_i
              THEN "timed out" ELSE "refused")

\* main, line 1257: the pass the gateway runs when it has just started
FirstScan ==
    /\ IDA_INSTANCES = << >>
    /\ ScanStart

NextPluginScan ==
    \/ \E w \in Plugins : MCP_init(w)
    \/ \E w \in Plugins : MCP_run(w)
    \/ \E w \in Plugins : unregister_from_main_server(w, TRUE)
    \/ \E w \in Plugins : MCP_stop(w)
    \/ \E w \in Plugins, outcome \in {"bound", "address in use"} : MCP_serve(w, outcome)
    \/ \E w \in Plugins : MCP_idb_meta(w)
    \/ \E w \in Plugins : register_with_main_server(w, FALSE)
    \/ FirstScan
    \/ \E w \in Plugins : ProbePlugin(w)
    \/ ProbeMiss
    \/ ScanReturn

SpecPluginScan == InitPlugin /\ [][NextPluginScan]_vars

----------------------------------------------------------------------------
(* Vocabulary of the properties *)

Done == pc = "done"
Req == inbound.obj
HasId == Req.id # NoId

\* neither handshake, notification, enumeration nor capability listing
Ordinary == inbound.form # "none" /\ Classify(Req) = "extract"

\* the selector the request arrived with
Selector == ExtractedBinary(Req)

\* the listener did not touch the registry while this request was handled
Quiet == ~regChanged

GatewayError(message) ==
    /\ result.t = "reply"
    /\ result.origin = "gateway"
    /\ result.shape = "error"
    /\ result.message = message

ForwardedTo(host, port) ==
    /\ Len(forwards) = 1
    /\ forwards[1].host = host
    /\ forwards[1].port = port

----------------------------------------------------------------------------
(* C1: an ordinary request without a (non-empty) selector, handled while    *)
(* more than one worker is registered, is forwarded nowhere, and when it    *)
(* carries an identifier it is answered with the ambiguous-selection error. *)
C1_AmbiguousWithoutSelector ==
    (Done /\ Ordinary /\ ~Truthy(Selector) /\ Quiet /\ Len(IDA_INSTANCES) > 1)
    => /\ forwards = << >>
       /\ HasId => GatewayError(MSG_AMBIGUOUS)

C1_Witness ==
    /\ Done /\ Ordinary /\ HasId /\ Selector = Absent /\ Quiet
    /\ Len(IDA_INSTANCES) = 2
    /\ GatewayError(MSG_AMBIGUOUS)
    /\ forwards = << >>

(* C2: an ordinary request without a selector, handled while exactly one    *)
(* worker is registered, is forwarded once, to that worker's host and port, *)
(* with the selector-stripped request; what the worker answers is returned  *)
(* as it came, and the gateway raises no routing error of its own.          *)
C2_AutoRouteSingle ==
    (Done /\ Ordinary /\ ~Truthy(Selector) /\ Quiet /\ Len(IDA_INSTANCES) = 1)
    => /\ ForwardedTo(IDA_INSTANCES[1].rec.host, IDA_INSTANCES[1].rec.port)
       /\ forwards[1].data = PopBinary(Req)
       /\ answer.t = "reply" => result = answer
       /\ ~GatewayError(MSG_NOT_FOUND)
       /\ ~GatewayError(MSG_AMBIGUOUS)

C2_Witness ==
    /\ Done /\ Ordinary /\ HasId /\ Selector = Absent /\ Quiet
    /\ Len(IDA_INSTANCES) = 1
    /\ ForwardedTo(IDA_INSTANCES[1].rec.host, IDA_INSTANCES[1].rec.port)
    /\ IDA_INSTANCES[1].rec.port # IDA_PORT
    /\ answer.t = "reply" /\ result = answer /\ result.origin = "worker"

(* C4: an ordinary request without a selector, handled while no worker is   *)
(* registered, is forwarded once, to (IDA_HOST, IDA_PORT), and gets neither *)
(* the not-found nor the ambiguous-selection error.                         *)
C4_DefaultAddressFallback ==
    (Done /\ Ordinary /\ ~Truthy(Selector) /\ Quiet /\ Len(IDA_INSTANCES) = 0)
    => /\ ForwardedTo(IDA_HOST, IDA_PORT)
       /\ ~GatewayError(MSG_NOT_FOUND)
       /\ ~GatewayError(MSG_AMBIGUOUS)

C4_Witness ==
    /\ Done /\ Ordinary /\ HasId /\ Selector = Absent /\ Quiet
    /\ IDA_INSTANCES = << >>
    /\ ForwardedTo(IDA_HOST, IDA_PORT)
    /\ answer.t = "reply" /\ result = answer

(* C3 (as amended): an ordinary request whose selector is not empty, with   *)
(* any number of workers registered: when find_instance yields a record the *)
(* request is forwarded once, to that record's host and port; when it       *)
(* yields none, nothing is forwarded and a request with an identifier gets  *)
(* the not-found error that names list_instances.                           *)
C3_SelectorRouting ==
    /\ (Done /\ Ordinary /\ Truthy(Selector) /\ Quiet)
       => /\ find_instance(Selector, IDA_INSTANCES).t = "rec"
             => ForwardedTo(find_instance(Selector, IDA_INSTANCES).rec.host,
                            find_instance(Selector, IDA_INSTANCES).rec.port)
          /\ find_instance(Selector, IDA_INSTANCES) = NONE
             => /\ forwards = << >>
                /\ HasId => GatewayError(MSG_NOT_FOUND)
    /\ (Done /\ Ordinary /\ Truthy(Selector) /\ instance.t = "rec")
       => ForwardedTo(instance.rec.host, instance.rec.port)

\* the selector is found among two workers and is not the first of them
C3_Witness ==
    /\ Done /\ Ordinary /\ HasId /\ Truthy(Selector) /\ Quiet
    /\ Len(IDA_INSTANCES) = 2
    /\ find_instance(Selector, IDA_INSTANCES) = Found(IDA_INSTANCES[2].rec)
    /\ ForwardedTo(IDA_INSTANCES[2].rec.host, IDA_INSTANCES[2].rec.port)
    /\ IDA_INSTANCES[2].rec.port # IDA_INSTANCES[1].rec.port

(* C3 as stated: the same for every request that carries a selector, the    *)
(* empty string included.                                                   *)
C3_AnySelectorRouting ==
    (Done /\ Ordinary /\ Selector.t # "absent" /\ Quiet)
    => /\ find_instance(Selector, IDA_INSTANCES).t = "rec"
          => ForwardedTo(find_instance(Selector, IDA_INSTANCES).rec.host,
                         find_instance(Selector, IDA_INSTANCES).rec.port)
       /\ find_instance(Selector, IDA_INSTANCES) = NONE
          => /\ forwards = << >>
             /\ HasId => GatewayError(MSG_NOT_FOUND)

(* C5: a tools/list request that found the registry empty and whose         *)
(* discovery pass registered nothing is answered by the gateway itself with *)
(* a tool list of exactly one entry, list_instances, and forwarded nowhere. *)
C5_EmptyCapabilityList ==
    (Done /\ Req.method = M_TOOLS_LIST /\ discoveries = 1 /\ discovered = 0 /\ Quiet)
    => /\ result.t = "reply"
       /\ result.origin = "gateway"
       /\ result.shape = "tools"
       /\ Len(result.tools) = 1
       /\ result.tools[1].name = "list_instances"
       /\ result.id = Req.id
       /\ forwards = << >>

C5_Witness ==
    /\ Done /\ Req.method = M_TOOLS_LIST /\ HasId
    /\ discoveries = 1 /\ discovered = 0 /\ Quiet
    /\ IDA_INSTANCES = << >>
    /\ result = ToolsReply("gateway", "1", <<NO_WORKERS_TOOL>>)
    /\ forwards = << >>

\* the 'binary' entry a forwarded request still holds
CarriesBinary(obj) ==
    /\ obj.params.kind = "dict"
    /\ IF obj.method = M_TOOLS_CALL
       THEN obj.params.args.kind = "dict" /\ obj.params.args.binary # Absent
       ELSE obj.params.binary # Absent

(* C6: no forwarded request holds a 'binary' entry: not in the arguments of *)
(* a tools/call, not in the params of any other method.                     *)
C6_NoSelectorForwarded ==
    \A i \in 1..Len(forwards) : ~CarriesBinary(forwards[i].data)

(* C7: a request without identifier that runs into a failure path (selector *)
(* not found, ambiguous selection, failed forward, the forward of a         *)
(* tools/list included) gets no reply value: no error object is built.      *)
C7_NotificationNoReply ==
    (Done /\ inbound.form # "none" /\ ~HasId
          /\ Classify(Req) \in {"extract", "tl_count1"})
    => /\ ~(result.t = "reply" /\ result.origin = "gateway" /\ result.shape = "error")
       /\ answer.t = "fail" => result = NoReply

(* C8: whenever a forward fails at transport level for a request with an    *)
(* identifier, the handler returns an error whose data field is present and *)
(* holds the non-empty failure text, and the step leaves the registry as it *)
(* was.                                                                     *)
C8_TransportErrorCarriesData ==
    [][ (pc \in {"forward", "tl_forward"} /\ HasId /\ answer'.t = "fail")
        => /\ result'.t = "reply"
           /\ result'.shape = "error"
           /\ result'.origin = "gateway"
           /\ result'.data.t = "str"
           /\ result'.data.v # Empty
           /\ IDA_INSTANCES' = IDA_INSTANCES ]_vars

(* C9: dispatch_proxy never ends by raising: every request is finished with *)
(* a reply envelope or with nothing.                                        *)
C9_NeverRaises == result.t # "raise"

(* C10: a request whose method is initialize or starts with notifications/  *)
(* is never forwarded, triggers no discovery, and is handed to              *)
(* dispatch_original exactly once, as it arrived.                           *)
C10_LocalNeverForwarded ==
    (inbound.form # "none"
        /\ (Req.method = M_INITIALIZE \/ IsNotificationMethod(Req.method)))
    => /\ forwards = << >>
       /\ discoveries = 0
       /\ Done => delegated = <<inbound>>

\* a notification with a 'binary' parameter while two workers are registered
C10_Witness ==
    /\ Done /\ Req.method = M_NOTIFICATION
    /\ Req.params.binary = Str(A)
    /\ Len(IDA_INSTANCES) = 2
    /\ delegated = <<inbound>>
    /\ forwards = << >>

\* the request invokes the enumeration operation by name
IsEnumeration ==
    /\ Req.method = M_TOOLS_CALL
    /\ Req.params.kind = "dict"
    /\ Req.params.name = "list_instances"

(* C11: a tools/call of list_instances is never forwarded, whatever the     *)
(* registry and the selector it carries; it is handed to dispatch_original  *)
(* once, as it arrived, and its result holds one entry for every record     *)
(* that is in the registry when the discovery pass it triggers is over, in  *)
(* registry order.                                                          *)
C11_EnumerationLocal ==
    (inbound.form # "none" /\ IsEnumeration)
    => /\ forwards = << >>
       /\ Done => /\ delegated = <<inbound>>
                  /\ result.t = "reply"
                  /\ result.shape = "instances"
                  /\ Len(result.tools) = Len(IDA_INSTANCES)
                  /\ \A i \in 1..Len(IDA_INSTANCES) :
                        /\ result.tools[i].binary_id = IDA_INSTANCES[i].key
                        /\ result.tools[i].module = IDA_INSTANCES[i].rec.module
                        /\ result.tools[i].path = IDA_INSTANCES[i].rec.path
                        /\ result.tools[i].port = IDA_INSTANCES[i].rec.port

\* two workers, one of them found by the pass, and a selector in the arguments
C11_Witness ==
    /\ Done /\ IsEnumeration
    /\ Req.params.args.binary = Str(A)
    /\ discovered = 1
    /\ Len(IDA_INSTANCES) = 2
    /\ Len(result.tools) = 2
    /\ forwards = << >>

(* C12: within the handling of a request a discovery pass starts only at    *)
(* the first count of a tools/list, and there exactly when the registry is  *)
(* empty, and at the invocation of list_instances, always: once for every   *)
(* list_instances call, at most once for a tools/list, never for any other  *)
(* method.                                                                  *)
C12_DiscoveryPasses ==
    /\ [](inbound.form # "none"
            => /\ (IsEnumeration /\ pc # "list_instances") => discoveries = 1
               /\ Req.method = M_TOOLS_LIST => discoveries <= 1
               /\ (~IsEnumeration /\ Req.method # M_TOOLS_LIST) => discoveries = 0)
    /\ [][ (pc = "tl_count1" /\ pc' # "tl_count1")
           => discoveries' = (IF IDA_INSTANCES = << >> THEN 1 ELSE 0) ]_vars
    /\ [][ discoveries' > discoveries
           => (pc = "tl_count1" \/ (pc = "list_instances" /\ IsEnumeration)) ]_vars

\* a tools/list that found nothing registered, discovered a worker and forwarded
C12_Witness ==
    /\ Done /\ Req.method = M_TOOLS_LIST
    /\ discoveries = 1 /\ discovered > 0
    /\ Len(forwards) = 1

(* C17: no step other than a successful unregister call of the listener     *)
(* removes an identity from the registry: across registration, discovery,   *)
(* find, routing, failed and successful forwards and failed probes the set  *)
(* of keys never shrinks.                                                   *)
C17_OnlyUnregisterRemoves ==
    [][ \/ Keys(IDA_INSTANCES) \subseteq Keys(IDA_INSTANCES')
        \/ \E data \in UnregData :
              /\ Unregister(data)
              /\ \E k \in Keys(IDA_INSTANCES) :
                    /\ k \in {data.binary_id, data.sha256, data.md5}
                    /\ Keys(IDA_INSTANCES') = Keys(IDA_INSTANCES) \ {k} ]_vars

\* a forward to a registered worker failed and its record is still there
C17_Witness ==
    /\ Done
    /\ answer = Failed("timed out")
    /\ instance.t = "rec"
    /\ \E i \in 1..Len(IDA_INSTANCES) : IDA_INSTANCES[i].rec = instance.rec
    /\ Len(forwards) = 1

\* a capability listing answered by a worker with a list of tools was relayed
RelayedListing ==
    /\ Done
    /\ Req.method = M_TOOLS_LIST
    /\ answer.t = "reply" /\ answer.shape = "tools"
    /\ result.shape = "tools"

AtKey(d, k) == { i \in 1..Len(d) : d[i].key = k }

(* C13: a register call whose sha256 and md5 are both empty or missing      *)
(* fails and leaves the registry as it was; a call with a non-empty hash    *)
(* succeeds, returns the sha256 when that is non-empty and the md5          *)
(* otherwise, and the returned key is in the registry afterwards.           *)
C13_RegisterValidation ==
    call.op = "register"
    => IF call.data.sha256 = Empty /\ call.data.md5 = Empty
       THEN /\ ~call.success
            /\ IDA_INSTANCES = call.before
       ELSE /\ call.success
            /\ call.binary_id = (IF call.data.sha256 # Empty THEN call.data.sha256
                                 ELSE call.data.md5)
            /\ call.binary_id \in Keys(IDA_INSTANCES)

\* both hashes given and different: the sha256 is the key
C13_Witness ==
    /\ call.op = "register"
    /\ call.data.sha256 = A /\ call.data.md5 = B
    /\ call.success /\ call.binary_id = A
    /\ A \notin Keys(call.before)

(* C14: a successful register call under a key that is already registered   *)
(* leaves the registry at its size, with exactly one entry under that key,  *)
(* at the place of the old one, holding the host, port, path, short name    *)
(* and hashes of the call; every other entry is unchanged.                  *)
C14_ReRegisterOverwrites ==
    (call.op = "register" /\ call.success /\ call.binary_id \in Keys(call.before))
    => /\ Len(IDA_INSTANCES) = Len(call.before)
       /\ Cardinality(AtKey(IDA_INSTANCES, call.binary_id)) = 1
       /\ \A i \in 1..Len(call.before) :
             IF call.before[i].key = call.binary_id
             THEN /\ IDA_INSTANCES[i].key = call.binary_id
                  /\ IDA_INSTANCES[i].rec.host = call.data.host
                  /\ IDA_INSTANCES[i].rec.port = call.data.port
                  /\ IDA_INSTANCES[i].rec.path = call.data.path
                  /\ IDA_INSTANCES[i].rec.module = call.data.module
                  /\ IDA_INSTANCES[i].rec.md5 = call.data.md5
                  /\ IDA_INSTANCES[i].rec.sha256 = call.data.sha256
             ELSE IDA_INSTANCES[i] = call.before[i]

\* a second record under a key of a registry of two, differing in every field
C14_Witness ==
    /\ call.op = "register" /\ call.success
    /\ Len(call.before) = 2
    /\ call.before[1].key = call.binary_id
    /\ call.before[1].rec.port # call.data.port
    /\ call.before[1].rec.path # call.data.path
    /\ call.before[1].rec.module # call.data.module
    /\ call.before[1].rec.md5 # call.data.md5
    /\ IDA_INSTANCES[1].rec.port = call.data.port
    /\ IDA_INSTANCES[2] = call.before[2]

\* the least position of a non-empty set of positions
First(S) == CHOOSE i \in S : \A j \in S : i <= j

(* C15: find returns the record under the key equal to the selector when    *)
(* there is one; otherwise the first record whose short name equals the     *)
(* selector; otherwise the first record whose path contains the selector;   *)
(* otherwise nothing.  A tier is reached only when no record of the whole   *)
(* registry matches an earlier one.                                         *)
C15_FindTiers ==
    call.op = "find"
    => LET d == call.before
           v == call.sel.v
           byKey == AtKey(d, v)
           byModule == { i \in 1..Len(d) : d[i].rec.module = v }
           byPath == { i \in 1..Len(d) : Contains(d[i].rec.path, v) }
       IN  IF byKey # {} THEN call.ret = Found(d[First(byKey)].rec)
           ELSE IF byModule # {} THEN call.ret = Found(d[First(byModule)].rec)
           ELSE IF byPath # {} THEN call.ret = Found(d[First(byPath)].rec)
           ELSE call.ret = NONE

\* the first record matches by short name and by path, the second by key
C15_Witness ==
    /\ call.op = "find"
    /\ call.sel = Str(A)
    /\ Len(call.before) = 2
    /\ call.before[1].key = B
    /\ call.before[1].rec.module = A
    /\ Contains(call.before[1].rec.path, A)
    /\ call.before[2].key = A
    /\ call.ret = Found(call.before[2].rec)
    /\ call.before[2].rec # call.before[1].rec

\* the one value an unregister call names, when it names exactly one
NamedKey(data) ==
    IF data.binary_id # Empty THEN data.binary_id
    ELSE IF data.sha256 # Empty THEN data.sha256
    ELSE data.md5

NamesOne(data) ==
    Cardinality({ f \in {"binary_id", "sha256", "md5"} : data[f] # Empty }) = 1

(* C16: an unregister call that names one value removes the record whose    *)
(* key, sha256 or md5 equals it and returns that record's key, removing     *)
(* exactly one entry; when no record matches it fails and the registry is   *)
(* unchanged.                                                               *)
C16_UnregisterByAnyHash ==
    (call.op = "unregister" /\ NamesOne(call.data))
    => LET d == call.before
           k == NamedKey(call.data)
           matches == { i \in 1..Len(d) :
                          k \in {d[i].key, d[i].rec.sha256, d[i].rec.md5} }
       IN  IF matches # {}
           THEN /\ call.success
                /\ Len(IDA_INSTANCES) = Len(d) - 1
                /\ \E i \in matches :
                      /\ call.binary_id = d[i].key
                      /\ d[i].key \notin Keys(IDA_INSTANCES)
           ELSE /\ ~call.success
                /\ IDA_INSTANCES = d

\* an outcome that makes register_instance succeed
Registers(o) ==
    o.kind = "metadata" /\ (o.meta.sha256 # Empty \/ o.meta.md5 # Empty)

(* C20: a discovery pass probes every port whatever the earlier ports did,  *)
(* returns the number of ports that answered with metadata holding a hash,  *)
(* and changes the registry only by registering those.                      *)
C20_DiscoveryNeverFails ==
    /\ pc = "scan" => /\ call.op = "discover"
                      /\ Len(call.outcomes) = probe_i
                      /\ probe_i < MaxTries
    /\ pc = "scanned"
       => /\ Len(call.outcomes) = MaxTries
          /\ discovered = Cardinality({ i \in 1..MaxTries : Registers(call.outcomes[i]) })
          /\ Keys(IDA_INSTANCES) =
                Keys(call.before)
                \cup { IF call.outcomes[i].meta.sha256 # Empty
                       THEN call.outcomes[i].meta.sha256
                       ELSE call.outcomes[i].meta.md5 :
                       i \in { j \in 1..MaxTries : Registers(call.outcomes[j]) } }
          /\ \A k \in Keys(call.before) :
                Get(IDA_INSTANCES, k) = Get(call.before, k)
                \/ \E i \in 1..MaxTries :
                      /\ Registers(call.outcomes[i])
                      /\ Get(IDA_INSTANCES, k).port = START_PORT + i - 1
    /\ call.op = "discovered"
       => call.ret = Cardinality({ i \in 1..MaxTries : Registers(call.outcomes[i]) })

\* the first port fails, the last answers with a hash: one registration
C20_Witness ==
    /\ call.op = "discovered"
    /\ call.outcomes[1].kind = "timed out"
    /\ call.outcomes[MaxTries] = Outcome("metadata", W1)
    /\ call.ret = 1
    /\ call.before = << >>
    /\ Len(IDA_INSTANCES) = 1
    /\ IDA_INSTANCES[1].rec.port = START_PORT + MaxTries - 1

\* the positions of a tool list that hold an entry named list_instances
Enumerations(ts) == { i \in 1..Len(ts) : ts[i].name = "list_instances" }

(* C19: a tool list returned by the augmenter holds exactly one entry named *)
(* list_instances: it is one longer than the list given, with that entry    *)
(* last, when the list given held none, and as long as the list given when  *)
(* it held one; augmenting what the augmenter returned appends nothing.     *)
C19_OneEnumerationEntry ==
    (call.op = "augment" /\ call.ret.t = "reply" /\ call.ret.shape = "tools")
    => /\ Cardinality(Enumerations(call.ret.tools)) = 1
       /\ IF Enumerations(call.arg.tools) = {}
          THEN /\ Len(call.ret.tools) = Len(call.arg.tools) + 1
               /\ Enumerations(call.ret.tools) = {Len(call.ret.tools)}
          ELSE /\ Len(call.ret.tools) = Len(call.arg.tools)
               /\ Enumerations(call.ret.tools) = Enumerations(call.arg.tools)
       /\ call.n > 1 => /\ Len(call.ret.tools) = Len(call.arg.tools)
                         /\ \A i \in 1..Len(call.arg.tools) :
                               call.ret.tools[i].name = call.arg.tools[i].name

\* the second augmentation of a list whose enumeration entry was appended
C19_Witness ==
    /\ call.op = "augment"
    /\ call.n = 2
    /\ Len(call.arg.tools) = 2
    /\ call.arg.tools[1].name = "decompile" /\ call.arg.tools[1].binary
    /\ call.arg.tools[2] = LIST_INSTANCES_TOOL
    /\ Len(call.ret.tools) = 2
    /\ call.ret.tools[2].name = "list_instances"

(* C21: the value a discovery pass returns is the number of keys that are   *)
(* in the registry after the pass and were not in it before.                *)
C21_CountsNewlyDiscovered ==
    call.op = "discovered"
    => call.ret = Cardinality(Keys(IDA_INSTANCES) \ Keys(call.before))

\* a reply that carries a result value or an error object with code and message
WellFormedReply(r) == r.shape \in {"result", "tools", "instances", "error"}

(* C22: every reply returned for a request with an id mirrors that id and   *)
(* carries a result or an error with code and message, whether the gateway  *)
(* made it or relayed it from the address it resolved (a worker that        *)
(* answers with JSON that is no object is left aside).                      *)
C22_RepliesMirrorId ==
    (Done /\ HasId /\ result.t = "reply" /\ answer # ScalarReply)
    => /\ result.id = Req.id
       /\ WellFormedReply(result)

(* C23: every error the gateway builds itself (selector not found,          *)
(* ambiguous selection, failed ordinary forward, failed capability-listing  *)
(* forward) has the code -32000 and one of the four message texts.          *)
C23_SingleErrorCode ==
    (result.t = "reply" /\ result.origin = "gateway" /\ result.shape = "error")
    => /\ result.code = -32000
       /\ result.message \in {MSG_NOT_FOUND, MSG_AMBIGUOUS, MSG_CONNECT, MSG_TOOLS}

\* the capability-listing forward timed out
C23_Witness ==
    /\ Done
    /\ Req.method = M_TOOLS_LIST
    /\ answer = Failed("timed out")
    /\ GatewayError(MSG_TOOLS)
    /\ result.code = -32000

(* C24: a POST to /register or /unregister with a malformed body is         *)
(* answered with status 400 and leaves the registry as it was.              *)
C24_MalformedBodyRejected ==
    call.op = "post"
    => /\ call.status = "400"
       /\ IDA_INSTANCES = call.before

(* C25: when start_registry_server raises OSError with an address-in-use    *)
(* errno (48, 98, 10048), main does not raise, runs without a listener of   *)
(* its own, runs the initial discovery pass over every port and then        *)
(* serves; every other failure of the startup is raised, and nothing is     *)
(* scanned or served after it.                                              *)
C25_StartupSkipsBoundPort ==
    call.op = "main"
    => /\ (call.startup.kind = "OSError" /\ call.startup.errno \in {48, 98, 10048})
          => (pc # "raised" /\ call.listener = "skipped")
       /\ call.startup.kind = "bound" => (pc # "raised" /\ call.listener = "running")
       /\ (call.startup.kind = "other exception"
           \/ (call.startup.kind = "OSError" /\ call.startup.errno \notin {48, 98, 10048}))
          => (pc = "raised" /\ call.outcomes = << >> /\ IDA_INSTANCES = << >>)
       /\ pc = "serving" => Len(call.outcomes) = MaxTries

\* the port was bound by another process; the pass found a worker; serving
C25_Witness ==
    /\ pc = "serving"
    /\ call.op = "main"
    /\ call.startup = [kind |-> "OSError", errno |-> 98]
    /\ call.listener = "skipped"
    /\ Len(IDA_INSTANCES) = 1

(* C26: whenever the handler thread is at a network call (a forward or a    *)
(* probe of a discovery pass) it does not hold the registry lock; it holds  *)
(* the lock only at the statements that read the registry.                  *)
C26_LockFreeDuringIO ==
    /\ pc \in {"tl_forward", "forward", "tl_discover", "li_discover"}
       => instances_lock # "handler"
    /\ instances_lock = "handler"
       => pc \in {"tl_count1", "tl_count2", "tl_first", "find", "count1", "single",
                  "count2", "li_list"}

\* the listener holds the lock while the handler is at the forward of a call
C26_Witness ==
    /\ pc = "forward"
    /\ instance.t = "rec"
    /\ instances_lock = "listener"

(* C27: a request is forwarded at most once; the step in which the forward  *)
(* completes or fails is the step that returns; after a failed forward the  *)
(* request has that one forward and an error (or, without id, nothing) as   *)
(* its outcome.                                                             *)
C27_AtMostOneForward ==
    /\ [](Len(forwards) <= 1)
    /\ [](forwards # << >> => (Done /\ answer # NONE))
    /\ [](answer.t = "fail"
            => /\ Len(forwards) = 1
               /\ result = NoReply
                  \/ (result.t = "reply" /\ result.origin = "gateway"
                      /\ result.shape = "error"))
    /\ [][forwards' # forwards /\ forwards' # << >>
            => (pc' = "done" /\ Len(forwards') = Len(forwards) + 1)]_vars

\* the forward to one of two registered workers was refused: no second try
C27_Witness ==
    /\ Done
    /\ answer = Failed("refused")
    /\ Len(IDA_INSTANCES) = 2
    /\ Len(forwards) = 1
    /\ forwards[1].port = IDA_INSTANCES[2].rec.port
    /\ GatewayError(MSG_CONNECT)

(* C28: after dispatch_proxy has returned, the request value of the caller  *)
(* is as it arrived: it still holds the selector.                           *)
C28_InboundUntouched ==
    (Done /\ Ordinary) => RequestValue = inbound

(* C29: a selector-less ordinary call that went to the default address saw  *)
(* an empty registry at some instant of its handling, and one that got the  *)
(* ambiguous-selection error saw more than one record when it returned.     *)
C29_OneInstant ==
    (Done /\ Ordinary /\ Selector = Absent)
    => /\ (Len(forwards) = 1 /\ instance = NONE) => wasEmpty
       /\ GatewayError(MSG_AMBIGUOUS) => Len(IDA_INSTANCES) > 1

(* C30: a capability listing never selects the first record of an empty     *)
(* registry, and ends with a reply or an error object, not an exception.    *)
C30_FirstRecordExists ==
    /\ pc = "tl_first" => IDA_INSTANCES # << >>
    /\ (Done /\ Req.method = M_TOOLS_LIST) => result.t # "raise"

(* C31: augmenting a reply the augmenter returned gives back that reply     *)
(* unchanged: the same descriptors with the same schema properties, in the  *)
(* same order.                                                              *)
C31_AugmentIdempotent ==
    (call.op = "augment" /\ call.n > 1 /\ call.ret.t = "reply") => call.ret = call.arg

(* C32: every entry of the registry has a non-empty key, which is the      *)
(* entry's sha256 when that is non-empty and the entry's md5 otherwise.     *)
C32_KeyIsStrongestHash ==
    \A i \in 1..Len(IDA_INSTANCES) :
        /\ IDA_INSTANCES[i].key # Empty
        /\ IDA_INSTANCES[i].rec.sha256 # Empty
              => IDA_INSTANCES[i].key = IDA_INSTANCES[i].rec.sha256
        /\ IDA_INSTANCES[i].rec.sha256 = Empty
              => IDA_INSTANCES[i].key = IDA_INSTANCES[i].rec.md5

\* after a discovery pass: one entry with both hashes, one with an md5 only
C32_Witness ==
    /\ call.op = "discovered"
    /\ call.ret > 0
    /\ \E i, j \in 1..Len(IDA_INSTANCES) :
          /\ IDA_INSTANCES[i].rec.sha256 = A /\ IDA_INSTANCES[i].rec.md5 = B
          /\ IDA_INSTANCES[i].key = A
          /\ IDA_INSTANCES[j].rec.sha256 = Empty /\ IDA_INSTANCES[j].key = B

\* the step in which plugin w pushes its registration / its unregistration
PushesRegistration(w) ==
    plugin[w].last # "register" /\ plugin'[w].last = "register"

PushesUnregistration(w) ==
    plugin[w].last # "unregister" /\ plugin'[w].last = "unregister"

(* C33: a registration push that succeeds for an identity new to the       *)
(* registry adds one entry at the end and changes nothing else; when the   *)
(* next push to arrive is the unregistration of the same plugin, it        *)
(* succeeds, and when the identity was new it takes that last entry away   *)
(* again: the registry is as it was before the registration.               *)
C33_RoundTrip ==
    [][\A w \in Plugins :
        /\ (PushesRegistration(w) /\ call'.op = "register" /\ call'.success
                /\ call'.fresh)
            => /\ Len(IDA_INSTANCES') = Len(IDA_INSTANCES) + 1
               /\ SubSeq(IDA_INSTANCES', 1, Len(IDA_INSTANCES)) = IDA_INSTANCES
        /\ (PushesUnregistration(w) /\ call.op = "register" /\ call.worker = w
                /\ call.success /\ call'.op = "unregister" /\ call'.delivered)
            => /\ call'.success
               /\ call.fresh
                    => IDA_INSTANCES' =
                          SubSeq(IDA_INSTANCES, 1, Len(IDA_INSTANCES) - 1)]_vars

\* only ida1 ever ran: it registered into the empty registry and has
\* unregistered, and the registry is empty again
C33_Witness ==
    /\ call.op = "unregister"
    /\ call.worker = "ida1"
    /\ call.success
    /\ IDA_INSTANCES = << >>
    /\ plugin["ida1"].db = DB_BOTH
    /\ plugin["ida2"].last = "none"

\* registry d holds a record that points at the address plugin v serves on
PointsAt(d, v) ==
    \E i \in 1..Len(d) :
        d[i].rec.host = HOST /\ d[i].rec.port = plugin[v].serving

(* C34: the unregistration one plugin pushes leaves in the registry the    *)
(* record that points at the other plugin, which is serving and whose last *)
(* push was its registration.                                              *)
C34_UnregisterRemovesOwnRecord ==
    [][\A w, v \in Plugins :
        (/\ w # v
         /\ PushesUnregistration(w)
         /\ plugin[v].serving # 0
         /\ plugin[v].last = "register"
         /\ PointsAt(IDA_INSTANCES, v))
        => PointsAt(IDA_INSTANCES', v)]_vars

(* C36: a plugin pushes its registration only right after its RPC server   *)
(* was bound, while that server listens on the port registered; it stops   *)
(* a server for which it holds metadata only right after it pushed its     *)
(* unregistration (on restart by run and on term); and a run that finds    *)
(* every port of its range in use ends without a server and without a      *)
(* registration pushed since the run began.                                *)
C36_LifecycleOrder ==
    [][\A w \in Plugins :
        /\ PushesRegistration(w)
            => /\ plugin[w].last = "bound"
               /\ plugin[w].serving \in PluginPorts
               /\ plugin'[w].serving = plugin[w].serving
               /\ plugin[w].current_port = plugin[w].serving
        /\ (plugin[w].serving # 0 /\ plugin'[w].serving = 0
                /\ plugin[w].metadata.filled)
            => plugin[w].last = "unregister"
        /\ (plugin'[w].last = "exhausted" /\ plugin'[w] # plugin[w])
            => /\ plugin[w].last \in {"init", "stop", "exhausted", "raised"}
               /\ plugin'[w].serving = 0
               /\ IDA_INSTANCES' = IDA_INSTANCES]_vars

\* a restart by run: the plugin has unregistered and stopped its server, and
\* is about to bind again
C36_Witness ==
    \E w \in Plugins :
        /\ plugin[w].pc = "serve"
        /\ plugin[w].last = "stop"
        /\ plugin[w].metadata.filled
        /\ call.op = "unregister" /\ call.worker = w /\ call.success

\* a run that found every port in use, one of them held by the other plugin
C36_WitnessExhausted ==
    /\ plugin["ida1"].last = "exhausted"
    /\ plugin["ida1"].pc = "loaded"
    /\ plugin["ida2"].serving # 0

\* the hash a record with this metadata is registered under ("" when none)
IdentityOf(m) == IF m.sha256 # Empty THEN m.sha256 ELSE m.md5

(* C35: every port a plugin can bind is a port the discovery pass probes,  *)
(* and when a pass is complete every port that answered its probe with     *)
(* metadata holding a hash has a record under that hash in the registry,   *)
(* unless an unregistration removed that key while the pass ran.           *)
C35_DiscoveryRegistersWorkers ==
    /\ \A p \in PluginPorts : p \in START_PORT..(START_PORT + MaxTries - 1)
    /\ ((pc = "scanned" /\ call.op = "discover") \/ call.op = "discovered")
        => \A n \in 1..Len(call.outcomes) :
              (/\ call.outcomes[n].kind = "metadata"
               /\ IdentityOf(call.outcomes[n].meta) # Empty)
              => \/ \E i \in 1..Len(IDA_INSTANCES) :
                       IDA_INSTANCES[i].key = IdentityOf(call.outcomes[n].meta)
                 \/ IdentityOf(call.outcomes[n].meta) \in call.removed

\* a pass has returned: both plugins serve, their pushes never arrived, and
\* each has a record that points at it; one is registered under its md5
C35_Witness ==
    /\ call.op = "discovered"
    /\ call.before = << >>
    /\ call.removed = {}
    /\ call.ret = 2
    /\ \A w \in Plugins :
          /\ plugin[w].serving # 0
          /\ plugin[w].last = "register"
          /\ \E i \in 1..Len(IDA_INSTANCES) :
                /\ IDA_INSTANCES[i].key = IdentityOf(plugin[w].db)
                /\ IDA_INSTANCES[i].rec.port = plugin[w].serving
    /\ \E i \in 1..Len(IDA_INSTANCES) : IDA_INSTANCES[i].key = B

====
